---- MODULE Spec2Model ----
(***************************************************************************)
(* MindFul-Me: identity and capability-token subsystem.                    *)
(*                                                                         *)
(* Three groups of state are modelled:                                     *)
(*   - the clinical bridge (routes/doctor.ts on the Supabase backend):     *)
(*     doctor_connections rows, the doctors table, in-flight /access       *)
(*     requests, and the last response of the single-statement endpoints;  *)
(*   - the credential issuer, in its two implementations                   *)
(*     (backend/src/routes/auth.ts on pg, routes/auth.ts on Supabase);     *)
(*   - the patient records read by the data view assembler.                *)
(* Every await of a handler that separates two persistence calls is a      *)
(* separate step, so that requests interleave as they do on the server.    *)
(***************************************************************************)
EXTENDS Integers, Sequences, FiniteSets, TLC

VARIABLES
    now,        \* wall clock, minutes
    env,        \* process.env: which secrets are configured
    conns,      \* doctor_connections table: id -> row
    doctors,    \* doctors table: id -> row
    records,    \* patient records: patient id -> mood/journal/voice/medication rows
    acc,        \* in-flight POST /doctor/access requests
    lastResp,   \* last response of /session, /sessions, /sessions/:id, summary
    variant,    \* which credential issuer runs: "pg" or "supabase"
    users,      \* users table: id -> row
    refreshTokens, \* refresh_tokens table (pg): sequence of rows
    audit,      \* audit_logs table (Supabase): sequence of rows
    req,        \* in-flight /auth requests
    fails,      \* history: consecutive wrong-password answers per user id
    issued,     \* history: bearer tokens handed to clients by /auth responses
    loggedOut   \* history: tokens issued to a user before a completed logout

authVars == <<variant, users, refreshTokens, audit, req, fails, issued, loggedOut>>
vars == <<now, env, conns, doctors, records, acc, lastResp,
          variant, users, refreshTokens, audit, req, fails, issued, loggedOut>>

----------------------------------------------------------------------------
(* Bounds *)

MaxConns == 2
MaxProcs == 2
NumCodes == 2
NumSalts == 1
MaxHours == 1
MaxTtl == 1

(* Program constants *)

HOUR == 60
MinCode == 100000
MoodLimit == 30
VoiceLimit == 10

NULL == <<>>
Some(x) == <<x>>

Patients == {"pt1", "pt2"}
DoctorIds == {"d1", "d2"}
ConnIds == 1..MaxConns
Procs == 1..MaxProcs
Salts == 1..NumSalts
Codes == {MinCode + i : i \in 0..(NumCodes - 1)}
TtlInputs == 0..MaxTtl

BridgeTimes == {k * HOUR + j : k \in 1..MaxHours, j \in {-1, 1}}

Gates == {"view_mood_logs", "view_journal_entries", "view_voice_analysis",
          "view_medication_logs", "view_behavioral_data", "export_data"}
PermissionSets == [Gates -> BOOLEAN]
AllTrue == [g \in Gates |-> TRUE]

----------------------------------------------------------------------------
(* Session-code encryption (CryptoJS passphrase AES: salted ciphertext) *)

encryptSessionCode(code, salt) == [salted |-> salt, ct |-> code]

decryptSessionCode(encrypted) == encrypted.ct

\* generateSessionCode: Math.floor(100000 + Math.random() * 900000)
generateSessionCode == Codes

----------------------------------------------------------------------------
(* Arithmetic helpers for the derived metrics *)

\* Math.round(n / d) for n >= 0, d > 0 (halves round up)
RoundDiv(n, d) == (2 * n + d) \div (2 * d)

RECURSIVE SumSeq(_)
SumSeq(s) == IF s = <<>> THEN 0 ELSE Head(s) + SumSeq(Tail(s))

\* .limit(n) on an ordered query
Limit(s, n) == IF Len(s) <= n THEN s ELSE SubSeq(s, 1, n)

RECURSIVE Gcd(_, _)
Gcd(a, b) == IF b = 0 THEN a ELSE Gcd(b, a % b)

\* an unrounded quotient n / d, kept exact as a reduced fraction
Ratio(n, d) == LET g == Gcd(n, d) IN
    IF g = 0 THEN <<0, 1>> ELSE <<n \div g, d \div g>>

----------------------------------------------------------------------------
(* Data view assembler: the helper functions of routes/doctor.ts.          *)
(* An argument is a JS value: [defined |-> FALSE] is undefined.            *)

Undefined == [defined |-> FALSE]
Defined(v) == [defined |-> TRUE, val |-> v]
Prop(obj, key) == IF key \in DOMAIN obj THEN Defined(obj[key]) ELSE Undefined

Threw == [threw |-> TRUE]
Returned(v) == [threw |-> FALSE, val |-> v]

\* averageMood is in tenths (Math.round(avg * 10) / 10); the trend compares
\* the two newest scores with the two oldest: (a-b)/2 > 0.5 <=> a-b > 1
calculateMoodTrends(logs) ==
    IF ~logs.defined THEN Threw
    ELSE LET l == logs.val
             n == Len(l)
             moodScores == [i \in 1..n |-> l[i].mood_score]
             withAnx == SelectSeq(l, LAMBDA r : r.anxiety_level # NULL)
             anxietyScores == [i \in 1..Len(withAnx) |-> withAnx[i].anxiety_level[1]]
             recent == moodScores[1] + moodScores[2]
             older == moodScores[n - 1] + moodScores[n]
         IN IF n = 0
            THEN Returned([trend |-> "insufficient_data", averageMood |-> NULL,
                           averageAnxiety |-> NULL])
            ELSE Returned(
              [trend |-> IF n >= 3
                         THEN (IF recent - older > 1 THEN "improving"
                               ELSE IF older - recent > 1 THEN "declining"
                               ELSE "stable")
                         ELSE "stable",
               averageMood |-> Some(RoundDiv(SumSeq(moodScores) * 10, n)),
               averageAnxiety |-> IF Len(anxietyScores) > 0
                                  THEN Some(Ratio(SumSeq(anxietyScores), Len(anxietyScores)))
                                  ELSE NULL])

calculateAdherenceRate(logs) ==
    IF ~logs.defined THEN Threw
    ELSE LET l == logs.val
             taken == Len(SelectSeq(l, LAMBDA r : r.status = "taken"))
         IN IF Len(l) = 0 THEN Returned(0)
            ELSE Returned(RoundDiv(taken * 100, Len(l)))

\* averageFlatAffect / averageAgitation are in hundredths
analyzeVoiceInsights(analyses) ==
    IF ~analyses.defined THEN Threw
    ELSE LET a == analyses.val
             n == Len(a)
             sumVocal == SumSeq([i \in 1..n |-> a[i].overall_vocal_health_score])
             sumFlat == SumSeq([i \in 1..n |-> a[i].flat_affect_score])
             sumAgit == SumSeq([i \in 1..n |-> a[i].agitated_speech_score])
         IN IF n = 0
            THEN Returned([status |-> "insufficient_data", averageVocalHealth |-> NULL])
            ELSE Returned(
              [status |-> IF sumVocal > 70 * n THEN "healthy"
                          ELSE IF sumVocal > 50 * n THEN "moderate" ELSE "concern",
               averageVocalHealth |-> Some(RoundDiv(sumVocal, n)),
               averageFlatAffect |-> RoundDiv(sumFlat * 100, n),
               averageAgitation |-> RoundDiv(sumAgit * 100, n)])

\* user?.mental_health_index || null
getLatestMHI(userId) ==
    IF userId \in DOMAIN users /\ users[userId].mental_health_index # 0
    THEN Some(users[userId].mental_health_index) ELSE NULL

\* .select('id, title, entry_type, sentiment_analysis, emotion_tags, created_at')
JournalColumns == {"id", "title", "entry_type", "sentiment_analysis"}
SelectJournalAllColumns(rows) == rows

SelectJournal(rows) ==
    [i \in 1..Len(rows) |-> [c \in JournalColumns |-> rows[i][c]]]

\* .select('id, flat_affect_score, agitated_speech_score, overall_vocal_health_score, created_at')
VoiceColumns == {"id", "flat_affect_score", "agitated_speech_score",
                 "overall_vocal_health_score"}
SelectVoice(rows) ==
    [i \in 1..Len(rows) |-> [c \in VoiceColumns |-> rows[i][c]]]

CategoryGate == [moodLogs |-> "view_mood_logs",
                 journalEntries |-> "view_journal_entries",
                 voiceAnalysis |-> "view_voice_analysis",
                 medicationLogs |-> "view_medication_logs"]
Categories == DOMAIN CategoryGate

\* the four permission-gated queries of POST /access
FetchPatientData(permissions, rec) ==
    [k \in {c \in Categories : permissions[CategoryGate[c]]} |->
        CASE k = "moodLogs" -> Limit(rec.moodLogs, MoodLimit)
          [] k = "journalEntries" -> Limit(SelectJournal(rec.journalEntries), MoodLimit)
          [] k = "voiceAnalysis" -> Limit(SelectVoice(rec.voiceAnalysis), VoiceLimit)
          [] k = "medicationLogs" -> Limit(rec.medicationLogs, MoodLimit)]

\* res.json({...}) of POST /access; a throw of a helper reaches next(error)
AccessResponse(connection, patientData) ==
    LET mood == calculateMoodTrends(Prop(patientData, "moodLogs"))
        adherence == calculateAdherenceRate(Prop(patientData, "medicationLogs"))
        voice == analyzeVoiceInsights(Prop(patientData, "voiceAnalysis"))
    IN IF mood.threw \/ adherence.threw \/ voice.threw
       THEN [status |-> 500, error |-> "TypeError"]
       ELSE [status |-> 200,
             accessToken |-> connection.access_token,
             expiresAt |-> connection.token_expires_at,
             permissions |-> connection.permissions,
             patientData |-> [moodTrends |-> mood.val,
                              mentalHealthIndex |-> getLatestMHI(connection.patient_id),
                              adherenceRate |-> adherence.val,
                              voiceInsights |-> voice.val],
             data |-> patientData]

----------------------------------------------------------------------------
(* Bearer tokens of the Supabase backend (routes/auth.ts): one secret signs *)
(* access and refresh tokens alike.                                        *)

WEEK == 10080

\* process.env.JWT_SECRET || 'your-super-secret-jwt-key-change-in-production'
JWT_SECRET == IF env.JWT_SECRET = "unset" THEN "placeholder" ELSE env.JWT_SECRET

\* jwt.sign({ userId, email }, JWT_SECRET, { expiresIn: '7d' })
generateToken(userId, email) ==
    [userId |-> userId, email |-> email, iat |-> now, exp |-> now + WEEK,
     sig |-> JWT_SECRET]

\* jwt.verify inside try/catch: the payload, or null
verifyToken(token) ==
    IF token # NULL /\ token[1].sig = JWT_SECRET /\ now < token[1].exp
    THEN Some(token[1]) ELSE NULL

\* extractToken + verifyToken as every patient route begins:
\* 401 without a header, 401 with a bad token, else the decoded payload
Authenticate(bearer) ==
    IF bearer = NULL THEN [ok |-> FALSE, status |-> 401, error |-> "Unauthorized"]
    ELSE IF verifyToken(bearer) = NULL
         THEN [ok |-> FALSE, status |-> 401, error |-> "Invalid token"]
         ELSE [ok |-> TRUE, decoded |-> verifyToken(bearer)[1]]

getUserById(userId) == IF userId \in DOMAIN users THEN Some(users[userId]) ELSE NULL

----------------------------------------------------------------------------
(* Clinical bridge: routes/doctor.ts                                       *)

UsableIgnoresRevocation(row, t) == row.token_expires_at > t

UsableIgnoresExpiry(row, t) == row.is_active

\* .eq('is_active', true).gt('token_expires_at', new Date().toISOString())
Usable(row, t) == row.is_active /\ row.token_expires_at > t

Candidates == {c \in DOMAIN conns : Usable(conns[c], now)}

\* connections.find(conn => decryptSessionCode(conn.access_token) === sessionCode)
Matching(sessionCode) ==
    {c \in Candidates : decryptSessionCode(conns[c].access_token) = sessionCode}

getDoctorConnectionByTokenAnyState(accessToken) ==
    LET rows == {c \in DOMAIN conns : conns[c].access_token = accessToken}
    IN IF Cardinality(rows) = 1 THEN Some(conns[CHOOSE c \in rows : TRUE]) ELSE NULL

\* getDoctorConnectionByToken: .eq('access_token', t) + usable + .single()
getDoctorConnectionByToken(accessToken) ==
    LET rows == {c \in Candidates : conns[c].access_token = accessToken}
    IN IF Cardinality(rows) = 1 THEN Some(conns[CHOOSE c \in rows : TRUE]) ELSE NULL

\* Node lower-cases incoming header names before the handler sees them
LowerCase(name) == "sessiontoken"
HeaderNames == {"sessionToken", "sessiontoken"}
RequestHeaders(name, value) == [h \in {LowerCase(name)} |-> value]

IdleAcc == [pc |-> "idle"]
NoResp == [op |-> "none"]

\* POST /doctor/session
CreateSession(bearer, permissions, expiresInHours) ==
    LET auth == Authenticate(bearer) IN
    /\ IF ~auth.ok
       THEN /\ lastResp' = [op |-> "session", status |-> auth.status]
            /\ UNCHANGED conns
       ELSE IF expiresInHours < 1 \/ expiresInHours > 72
       THEN /\ lastResp' = [op |-> "session", status |-> 400]
            /\ UNCHANGED conns
       ELSE IF getUserById(auth.decoded.userId) = NULL
       THEN /\ lastResp' = [op |-> "session", status |-> 404]
            /\ UNCHANGED conns
       ELSE /\ ConnIds \ DOMAIN conns # {}
            /\ \E sessionCode \in generateSessionCode, salt \in Salts :
                 LET id == CHOOSE i \in ConnIds \ DOMAIN conns :
                               \A j \in ConnIds \ DOMAIN conns : i <= j
                     expiresAt == now + expiresInHours * HOUR
                     row == [id |-> id,
                             patient_id |-> auth.decoded.userId,
                             doctor_id |-> "",
                             access_token |-> encryptSessionCode(sessionCode, salt),
                             token_expires_at |-> expiresAt,
                             is_active |-> TRUE,
                             revoked_at |-> NULL,
                             revocation_reason |-> NULL,
                             permissions |-> permissions,
                             last_accessed_at |-> NULL,
                             access_count |-> 0,
                             created_at |-> now,
                             expiresInHours |-> expiresInHours]
                 IN /\ conns' = [x \in DOMAIN conns \cup {id} |->
                                   IF x = id THEN row ELSE conns[x]]
                    /\ lastResp' = [op |-> "session", status |-> 200, id |-> id]
    /\ UNCHANGED <<now, env, doctors, records, acc>>
    /\ UNCHANGED authVars

\* GET /doctor/sessions
ListSessions(bearer) ==
    LET auth == Authenticate(bearer) IN
    /\ IF ~auth.ok
       THEN lastResp' = [op |-> "sessions", status |-> auth.status]
       ELSE lastResp' =
              [op |-> "sessions", status |-> 200,
               total |-> Cardinality({c \in Candidates :
                               conns[c].patient_id = auth.decoded.userId})]
    /\ UNCHANGED <<now, env, conns, doctors, records, acc>>
    /\ UNCHANGED authVars

RevokeSessionExpiresToken(bearer, id) ==
    LET auth == Authenticate(bearer) IN
    /\ IF ~auth.ok
       THEN /\ lastResp' = [op |-> "revoke", status |-> auth.status]
            /\ UNCHANGED conns
       ELSE /\ conns' = [c \in DOMAIN conns |->
                           IF c = id /\ conns[c].patient_id = auth.decoded.userId
                           THEN [conns[c] EXCEPT !.is_active = FALSE,
                                                 !.token_expires_at = now,
                                                 !.revoked_at = Some(now),
                                                 !.revocation_reason = Some("Revoked by patient")]
                           ELSE conns[c]]
            /\ lastResp' = [op |-> "revoke", status |-> 200, sessionId |-> id]
    /\ UNCHANGED <<now, env, doctors, records, acc>>
    /\ UNCHANGED authVars

\* DELETE /doctor/sessions/:id
RevokeSession(bearer, id) ==
    LET auth == Authenticate(bearer) IN
    /\ IF ~auth.ok
       THEN /\ lastResp' = [op |-> "revoke", status |-> auth.status]
            /\ UNCHANGED conns
       ELSE /\ conns' = [c \in DOMAIN conns |->
                           IF c = id /\ conns[c].patient_id = auth.decoded.userId
                           THEN [conns[c] EXCEPT !.is_active = FALSE,
                                                 !.revoked_at = Some(now),
                                                 !.revocation_reason = Some("Revoked by patient")]
                           ELSE conns[c]]
            /\ lastResp' = [op |-> "revoke", status |-> 200, sessionId |-> id]
    /\ UNCHANGED <<now, env, doctors, records, acc>>
    /\ UNCHANGED authVars

\* the request is over: only what was sent back is kept
Finished(p, matched, response) ==
    [pc |-> "done", sessionCode |-> acc[p].sessionCode, doctorId |-> acc[p].doctorId,
     readAt |-> acc[p].readAt, matched |-> matched,
     status |-> response.status, body |-> response]

\* POST /doctor/access, up to "Verify doctor exists".  The doctors table is
\* written by no modelled operation, so its lookup is taken together with the
\* candidate query that precedes it.
AccessStart(p, sessionCode, doctorId) ==
    /\ acc[p].pc = "idle"
    /\ LET in == [sessionCode |-> sessionCode, doctorId |-> doctorId, readAt |-> now]
           Reject(c, st) == acc' = [acc EXCEPT ![p] =
                                      in @@ [pc |-> "done", matched |-> c,
                                             status |-> st, body |-> [status |-> st]]]
       IN IF sessionCode = 0 \/ doctorId = ""
          THEN Reject(0, 400)
          ELSE IF Candidates = {}
          THEN Reject(0, 404)
          ELSE IF Matching(sessionCode) = {}
          THEN Reject(0, 401)
          ELSE \E c \in Matching(sessionCode) :
                 IF doctorId \notin DOMAIN doctors
                 THEN Reject(c, 404)
                 ELSE acc' = [acc EXCEPT ![p] =
                                in @@ [pc |-> "bind", connection |-> conns[c]]]
    /\ UNCHANGED <<now, env, conns, doctors, records, lastResp>>
    /\ UNCHANGED authVars

AccessBindWritesWholeRow(p) ==
    /\ acc[p].pc = "bind"
    /\ conns' = [conns EXCEPT ![acc[p].connection.id] =
                    [acc[p].connection EXCEPT !.doctor_id = acc[p].doctorId]]
    /\ acc' = [acc EXCEPT ![p].pc = "fetch"]
    /\ UNCHANGED <<now, env, doctors, records, lastResp>>
    /\ UNCHANGED authVars

\* POST /doctor/access: .update({ doctor_id: doctorId }).eq('id', connection.id)
AccessBind(p) ==
    /\ acc[p].pc = "bind"
    /\ conns' = [conns EXCEPT ![acc[p].connection.id].doctor_id = acc[p].doctorId]
    /\ acc' = [acc EXCEPT ![p].pc = "fetch"]
    /\ UNCHANGED <<now, env, doctors, records, lastResp>>
    /\ UNCHANGED authVars

\* POST /doctor/access: "Fetch patient data based on permissions", "Update
\* access count", and the response.  The patient records are written by no
\* modelled operation, so the fetches are taken together with the update
\* that follows them.
AccessFetch(p) ==
    /\ acc[p].pc = "fetch"
    /\ LET connection == acc[p].connection
           patientData == FetchPatientData(connection.permissions,
                                           records[connection.patient_id])
       IN /\ conns' = [conns EXCEPT ![connection.id] =
                         [@ EXCEPT !.access_count = connection.access_count + 1,
                                   !.last_accessed_at = Some(now)]]
          /\ acc' = [acc EXCEPT ![p] =
                       Finished(p, connection.id,
                                AccessResponse(connection, patientData))]
    /\ UNCHANGED <<now, env, doctors, records, lastResp>>
    /\ UNCHANGED authVars

\* GET /doctor/patients/:patientId/summary from the header value on
SummaryResponse(sessionToken, patientId) ==
    LET connection == getDoctorConnectionByToken(sessionToken.val)
    IN IF ~sessionToken.defined
       THEN [op |-> "summary", status |-> 401]
       ELSE IF connection = NULL
       THEN [op |-> "summary", status |-> 401]
       ELSE IF connection[1].patient_id # patientId
       THEN [op |-> "summary", status |-> 403]
       ELSE [op |-> "summary", status |-> 200,
             patient |-> patientId, connection |-> connection[1].id,
             moodTrends |-> calculateMoodTrends(
                 Defined(Limit(records[patientId].moodLogs, MoodLimit))).val]

\* GET /doctor/patients/:patientId/summary
PatientSummary(headerName, token, patientId) ==
    LET headers == RequestHeaders(headerName, token)
    IN
    /\ lastResp' = SummaryResponse(Prop(headers, "sessionToken"), patientId)
    /\ UNCHANGED <<now, env, conns, doctors, records, acc>>
    /\ UNCHANGED authVars

\* time passes
Tick(t) ==
    /\ t > now
    /\ now' = t
    /\ UNCHANGED <<env, conns, doctors, records, acc, lastResp>>
    /\ UNCHANGED authVars

----------------------------------------------------------------------------
(* The credential issuer.  backend/src/routes/auth.ts runs on pg and keeps *)
(* refresh-token hashes; routes/auth.ts of the Supabase backend keeps an   *)
(* audit log instead.  `variant` says which of the two is deployed.        *)

LOCK_MINUTES == 15
ACCESS_MINUTES == 15
MONTH == 43200
PgThreshold == 4
SbThreshold == 5

IdleReq == [pc |-> "idle"]
bridgeFrame == <<env, conns, doctors, records, acc>>

\* String.prototype.toLowerCase on the addresses clients send
toLowerCase(s) == IF s = "A@x.io" THEN "a@x.io"
                 ELSE IF s = "C@x.io" THEN "c@x.io" ELSE s

\* bcrypt.hash / bcrypt.compare
bcryptHash(plain) == [bcrypt |-> plain]
bcryptCompare(plain, hash) == hash = bcryptHash(plain)

IsLockedOneMinuteShort(user) ==
    user.locked_until # NULL /\ user.locked_until[1] > now + 1

IsLockedUntilCleared(user) == user.locked_until # NULL

\* user.locked_until && new Date(user.locked_until) > new Date()
IsLocked(user) == user.locked_until # NULL /\ user.locked_until[1] > now

PgLockedUntilPreIncrement(failed_login_attempts) ==
    IF failed_login_attempts >= PgThreshold THEN Some(now + LOCK_MINUTES) ELSE NULL

PgLockedUntilAtThresholdOnly(failed_login_attempts) ==
    IF failed_login_attempts + 1 = PgThreshold THEN Some(now + LOCK_MINUTES) ELSE NULL

\* CASE WHEN failed_login_attempts + 1 >= 4 THEN NOW() + INTERVAL '15 minutes'
\* ELSE NULL END, over the stored counter
PgLockedUntil(failed_login_attempts) ==
    IF failed_login_attempts + 1 >= PgThreshold THEN Some(now + LOCK_MINUTES) ELSE NULL

\* failedAttempts >= 5 ? new Date(Date.now() + 15 * 60 * 1000) : null, over
\* the already incremented counter
SbLockTime(failedAttempts) ==
    IF failedAttempts >= SbThreshold THEN Some(now + LOCK_MINUTES) ELSE NULL

\* middleware/auth.ts generateAccessToken: throws without JWT_SECRET
generateAccessToken(user) ==
    IF env.JWT_SECRET = "unset" THEN Threw
    ELSE Returned([userId |-> user.id, email |-> user.email, iat |-> now,
                   exp |-> now + ACCESS_MINUTES, sig |-> env.JWT_SECRET])

\* middleware/auth.ts generateRefreshToken: throws without JWT_REFRESH_SECRET
generateRefreshToken(userId) ==
    IF env.JWT_REFRESH_SECRET = "unset" THEN Threw
    ELSE Returned([userId |-> userId, iat |-> now, exp |-> now + WEEK,
                   sig |-> env.JWT_REFRESH_SECRET])

\* middleware/auth.ts verifyRefreshToken: jwt.verify throws on a bad
\* signature or an expired token
verifyRefreshToken(token) ==
    IF env.JWT_REFRESH_SECRET = "unset" THEN Threw
    ELSE IF token.sig = env.JWT_REFRESH_SECRET /\ now < token.exp
         THEN Returned(token) ELSE Threw

\* middleware/auth.ts authenticate
authenticate(bearer) ==
    IF bearer = NULL THEN [ok |-> FALSE, status |-> 401]
    ELSE IF env.JWT_SECRET = "unset" THEN [ok |-> FALSE, status |-> 500]
    ELSE IF bearer[1].sig = env.JWT_SECRET /\ now < bearer[1].exp
         THEN [ok |-> TRUE, id |-> bearer[1].userId]
         ELSE [ok |-> FALSE, status |-> 401]

\* routes/auth.ts (Supabase) generateRefreshToken
generateRefreshTokenSupabase(userId) ==
    [userId |-> userId, type |-> "refresh", iat |-> now, exp |-> now + MONTH,
     sig |-> JWT_SECRET]

\* lib/supabase.ts getUserByEmail: .eq('email', email).single()
getUserByEmail(email) ==
    LET hit == {u \in DOMAIN users : users[u].email = email}
    IN IF Cardinality(hit) = 1 THEN Some(users[CHOOSE u \in hit : TRUE]) ELSE NULL

AuthRespond(p, response) ==
    /\ req' = [req EXCEPT ![p] = IdleReq]
    /\ lastResp' = response

\* POST /api/auth/login on pg, up to the password comparison
PgLoginStart(p, email, password) ==
    /\ variant = "pg"
    /\ req[p].pc = "idle"
    /\ LET rows == {u \in DOMAIN users : users[u].email = toLowerCase(email)}
       IN IF rows = {}
          THEN AuthRespond(p, [op |-> "login", status |-> 401, email |-> email])
          ELSE LET user == users[CHOOSE u \in rows : TRUE]
               IN IF IsLocked(user)
                  THEN AuthRespond(p, [op |-> "login", status |-> 423, user |-> user.id])
                  ELSE /\ req' = [req EXCEPT ![p] =
                                    [pc |-> "login_update", user |-> user,
                                     isValidPassword |-> bcryptCompare(password, user.password_hash)]]
                       /\ UNCHANGED lastResp
    /\ UNCHANGED <<now, variant, users, refreshTokens, audit, fails, issued, loggedOut>>
    /\ UNCHANGED bridgeFrame

\* the UPDATE of the login handler on pg: the increment and the lock are one
\* statement over the stored row; the success branch resets and signs
PgLoginUpdate(p) ==
    /\ variant = "pg"
    /\ req[p].pc = "login_update"
    /\ LET u == req[p].user.id
           accessToken == generateAccessToken(req[p].user)
           refreshToken == generateRefreshToken(u)
       IN IF ~req[p].isValidPassword
          THEN /\ users' = [users EXCEPT
                              ![u].failed_login_attempts = @ + 1,
                              ![u].locked_until = PgLockedUntil(users[u].failed_login_attempts)]
               /\ AuthRespond(p, [op |-> "login", status |-> 401, user |-> u])
               /\ fails' = [fails EXCEPT ![u] = @ + 1]
          ELSE /\ users' = [users EXCEPT ![u].failed_login_attempts = 0,
                                         ![u].locked_until = NULL,
                                         ![u].last_login = Some(now)]
               /\ IF accessToken.threw \/ refreshToken.threw
                  THEN AuthRespond(p, [op |-> "login", status |-> 500, user |-> u])
                  ELSE /\ req' = [req EXCEPT ![p] =
                                    [pc |-> "login_issue", user |-> req[p].user,
                                     accessToken |-> accessToken.val,
                                     refreshToken |-> refreshToken.val]]
                       /\ UNCHANGED lastResp
               /\ UNCHANGED fails
    /\ UNCHANGED <<now, variant, refreshTokens, audit, issued, loggedOut>>
    /\ UNCHANGED bridgeFrame

\* INSERT INTO refresh_tokens and the 200 answer
PgLoginIssue(p) ==
    /\ variant = "pg"
    /\ req[p].pc = "login_issue"
    /\ refreshTokens' = Append(refreshTokens,
            [user_id |-> req[p].user.id,
             token_hash |-> bcryptHash(req[p].refreshToken),
             expires_at |-> now + WEEK, is_revoked |-> FALSE])
    /\ AuthRespond(p, [op |-> "login", status |-> 200, user |-> req[p].user.id,
                       accessToken |-> req[p].accessToken,
                       refreshToken |-> req[p].refreshToken])
    /\ fails' = [fails EXCEPT ![req[p].user.id] = 0]
    /\ issued' = issued \cup {req[p].accessToken, req[p].refreshToken}
    /\ UNCHANGED <<now, variant, users, audit, loggedOut>>
    /\ UNCHANGED bridgeFrame

\* POST /login on Supabase, up to the password comparison
SbLoginStart(p, email, password) ==
    /\ variant = "supabase"
    /\ req[p].pc = "idle"
    /\ LET found == getUserByEmail(email)
       IN IF found = NULL
          THEN AuthRespond(p, [op |-> "login", status |-> 401, email |-> email])
          ELSE IF IsLocked(found[1])
               THEN AuthRespond(p, [op |-> "login", status |-> 423, user |-> found[1].id])
               ELSE IF "password_hash" \notin DOMAIN found[1]
               THEN \* bcrypt.compare(password, undefined) throws: next(error)
                    AuthRespond(p, [op |-> "login", status |-> 500, user |-> found[1].id])
               ELSE /\ req' = [req EXCEPT ![p] =
                                 [pc |-> "login_update", user |-> found[1],
                                  isValidPassword |-> bcryptCompare(password, found[1].password_hash)]]
                    /\ UNCHANGED lastResp
    /\ UNCHANGED <<now, variant, users, refreshTokens, audit, fails, issued, loggedOut>>
    /\ UNCHANGED bridgeFrame

\* updateUser of the login handler on Supabase: the new counter is computed
\* from the row read at the start of the request
SbLoginUpdate(p) ==
    /\ variant = "supabase"
    /\ req[p].pc = "login_update"
    /\ LET u == req[p].user.id
           failedAttempts == req[p].user.failed_login_attempts + 1
           lockTime == SbLockTime(failedAttempts)
       IN IF ~req[p].isValidPassword
          THEN /\ users' = [users EXCEPT ![u].failed_login_attempts = failedAttempts,
                                         ![u].locked_until = lockTime]
               /\ req' = [req EXCEPT ![p] =
                            [pc |-> "login_audit", user |-> req[p].user,
                             isValidPassword |-> FALSE,
                             failedAttempts |-> failedAttempts]]
          ELSE /\ users' = [users EXCEPT ![u].failed_login_attempts = 0,
                                         ![u].locked_until = NULL,
                                         ![u].last_login = Some(now)]
               /\ req' = [req EXCEPT ![p] =
                            [pc |-> "login_audit", user |-> req[p].user,
                             isValidPassword |-> TRUE,
                             token |-> generateToken(u, req[p].user.email),
                             refreshToken |-> generateRefreshTokenSupabase(u)]]
    /\ UNCHANGED <<now, variant, refreshTokens, audit, fails, issued, loggedOut, lastResp>>
    /\ UNCHANGED bridgeFrame

\* insertAuditLog and the answer of the login handler on Supabase
SbLoginAudit(p) ==
    /\ variant = "supabase"
    /\ req[p].pc = "login_audit"
    /\ LET u == req[p].user.id
       IN IF ~req[p].isValidPassword
          THEN /\ audit' = Append(audit, [user_id |-> u, action_type |-> "LOGIN_FAILED"])
               /\ AuthRespond(p, [op |-> "login", status |-> 401, user |-> u])
               /\ fails' = [fails EXCEPT ![u] = @ + 1]
               /\ UNCHANGED issued
          ELSE /\ audit' = Append(audit, [user_id |-> u, action_type |-> "USER_LOGIN"])
               /\ AuthRespond(p, [op |-> "login", status |-> 200, user |-> u,
                                  accessToken |-> req[p].token,
                                  refreshToken |-> req[p].refreshToken])
               /\ fails' = [fails EXCEPT ![u] = 0]
               /\ issued' = issued \cup {req[p].token, req[p].refreshToken}
    /\ UNCHANGED <<now, variant, users, refreshTokens, loggedOut>>
    /\ UNCHANGED bridgeFrame

\* POST /api/auth/refresh on pg: the token's signature and the user row are
\* all that is looked at
PgRefresh(refreshToken) ==
    /\ variant = "pg"
    /\ LET decoded == verifyRefreshToken(refreshToken)
       IN lastResp' =
            IF decoded.threw THEN [op |-> "refresh", status |-> 401]
            ELSE IF decoded.val.userId \notin DOMAIN users
                 THEN [op |-> "refresh", status |-> 401]
                 ELSE LET accessToken == generateAccessToken(users[decoded.val.userId])
                      IN IF accessToken.threw THEN [op |-> "refresh", status |-> 500]
                         ELSE [op |-> "refresh", status |-> 200,
                               accessToken |-> accessToken.val]
    /\ issued' = IF "accessToken" \in DOMAIN lastResp'
                 THEN issued \cup {lastResp'.accessToken} ELSE issued
    /\ UNCHANGED <<now, variant, users, refreshTokens, audit, req, fails, loggedOut>>
    /\ UNCHANGED bridgeFrame

\* POST /refresh on Supabase.  The route file calls getUserById without
\* importing it: the call either resolves to lib/supabase.ts getUserById or
\* raises ReferenceError, which next(error) turns into a 500.
SbRefresh(refreshToken, resolved) ==
    /\ variant = "supabase"
    /\ LET decoded == verifyToken(Some(refreshToken))
       IN lastResp' =
            IF decoded = NULL THEN [op |-> "refresh", status |-> 401]
            ELSE IF ~resolved THEN [op |-> "refresh", status |-> 500]
            ELSE IF getUserById(decoded[1].userId) = NULL
                 THEN [op |-> "refresh", status |-> 401]
                 ELSE LET user == getUserById(decoded[1].userId)[1]
                      IN [op |-> "refresh", status |-> 200,
                          accessToken |-> generateToken(user.id, user.email),
                          refreshToken |-> generateRefreshTokenSupabase(user.id)]
    /\ issued' = IF "accessToken" \in DOMAIN lastResp'
                 THEN issued \cup {lastResp'.accessToken, lastResp'.refreshToken}
                 ELSE issued
    /\ UNCHANGED <<now, variant, users, refreshTokens, audit, req, fails, loggedOut>>
    /\ UNCHANGED bridgeFrame

IssuedTo(userId) == {t \in issued : t.userId = userId}

\* POST /api/auth/logout on pg: every stored refresh token of the user is
\* flagged
PgLogout(bearer) ==
    /\ variant = "pg"
    /\ LET who == authenticate(bearer)
       IN IF ~who.ok
          THEN /\ lastResp' = [op |-> "logout", status |-> who.status]
               /\ UNCHANGED <<refreshTokens, loggedOut>>
          ELSE /\ refreshTokens' =
                     [i \in DOMAIN refreshTokens |->
                        IF refreshTokens[i].user_id = who.id
                        THEN [refreshTokens[i] EXCEPT !.is_revoked = TRUE]
                        ELSE refreshTokens[i]]
               /\ lastResp' = [op |-> "logout", status |-> 200, user |-> who.id]
               /\ loggedOut' = loggedOut \cup IssuedTo(who.id)
    /\ UNCHANGED <<now, variant, users, audit, req, fails, issued>>
    /\ UNCHANGED bridgeFrame

\* POST /logout on Supabase: an audit entry if the token verifies, and 200
\* in either case
SbLogout(bearer) ==
    /\ variant = "supabase"
    /\ IF bearer = NULL
       THEN /\ lastResp' = [op |-> "logout", status |-> 401]
            /\ UNCHANGED <<audit, loggedOut>>
       ELSE LET decoded == verifyToken(bearer)
            IN IF decoded = NULL
               THEN /\ lastResp' = [op |-> "logout", status |-> 200]
                    /\ UNCHANGED <<audit, loggedOut>>
               ELSE /\ audit' = Append(audit, [user_id |-> decoded[1].userId,
                                               action_type |-> "USER_LOGOUT"])
                    /\ lastResp' = [op |-> "logout", status |-> 200,
                                    user |-> decoded[1].userId]
                    /\ loggedOut' = loggedOut \cup IssuedTo(decoded[1].userId)
    /\ UNCHANGED <<now, variant, users, refreshTokens, req, fails, issued>>
    /\ UNCHANGED bridgeFrame

----------------------------------------------------------------------------
(* Registration.  The users table has email UNIQUE NOT NULL and the        *)
(* password_hash column (SUPABASE_SETUP schema); ids are UUIDs.            *)

MaxNewUsers == 2

UuidPool == <<"u1", "u2", "u3", "u4">>
NewIds == {UuidPool[i] : i \in 1..(IF MaxNewUsers < Len(UuidPool)
                                   THEN MaxNewUsers ELSE Len(UuidPool))}
UserIds == Patients \cup NewIds

\* uuid_generate_v4() / uuidv4(): an id no row has
uuidv4 == UuidPool[CHOOSE i \in 1..Len(UuidPool) :
                      /\ UuidPool[i] \notin DOMAIN users
                      /\ \A j \in 1..(i - 1) : UuidPool[j] \in DOMAIN users]

\* z.string().min(8) of registerSchema / signupSchema
ValidPassword(password) == password # "short"

\* the UNIQUE constraint on users.email
EmailTaken(email) == \E u \in DOMAIN users : users[u].email = email

\* the row the Supabase signup hands to createUser: the hash travels under
\* the key passwordHash, which is not the password_hash column login reads
SignupRow(id, email, password) ==
    [id |-> id, email |-> email, passwordHash |-> bcryptHash(password),
     failed_login_attempts |-> 0, locked_until |-> NULL, last_login |-> NULL,
     biometric_enabled |-> FALSE, mental_health_index |-> 50]

InsertedUserHashOfEmail(id, email, password) ==
    [id |-> id, email |-> email, password_hash |-> bcryptHash(email),
     failed_login_attempts |-> 0, locked_until |-> NULL, last_login |-> NULL,
     biometric_enabled |-> FALSE, mental_health_index |-> 50]

\* the row INSERT INTO users (email, password_hash, ...) creates on pg
InsertedUser(id, email, password) ==
    [id |-> id, email |-> email, password_hash |-> bcryptHash(password),
     failed_login_attempts |-> 0, locked_until |-> NULL, last_login |-> NULL,
     biometric_enabled |-> FALSE, mental_health_index |-> 50]

\* POST /api/auth/register on pg: validation and the SELECT for the email.
\* registerSchema has no consentGiven field: zod drops it from the body.
PgRegisterStart(p, email, password, consentGiven) ==
    /\ variant = "pg"
    /\ req[p].pc = "idle"
    /\ IF ~ValidPassword(password)
       THEN AuthRespond(p, [op |-> "register", status |-> 400])
       ELSE IF EmailTaken(toLowerCase(email))
            THEN AuthRespond(p, [op |-> "register", status |-> 409,
                                 code |-> "EMAIL_EXISTS"])
            ELSE /\ req' = [req EXCEPT ![p] =
                              [pc |-> "register_insert", email |-> email,
                               password |-> password,
                               consentGiven |-> consentGiven]]
                 /\ UNCHANGED lastResp
    /\ UNCHANGED <<now, variant, users, refreshTokens, audit, fails, issued, loggedOut>>
    /\ UNCHANGED bridgeFrame

\* INSERT INTO users ... RETURNING, then the token signing.  A unique
\* violation (23505) reaches errorHandler, which answers 409.
PgRegisterInsert(p) ==
    /\ variant = "pg"
    /\ req[p].pc = "register_insert"
    /\ LET email == toLowerCase(req[p].email)
           user == InsertedUser(uuidv4, email, req[p].password)
           accessToken == generateAccessToken(user)
           refreshToken == generateRefreshToken(user.id)
       IN IF EmailTaken(email)
          THEN /\ AuthRespond(p, [op |-> "register", status |-> 409,
                                  code |-> "DUPLICATE_ENTRY"])
               /\ UNCHANGED users
          ELSE /\ users' = users @@ (user.id :> user)
               /\ IF accessToken.threw \/ refreshToken.threw
                  THEN AuthRespond(p, [op |-> "register", status |-> 500])
                  ELSE /\ req' = [req EXCEPT ![p] =
                                    [pc |-> "register_issue", user |-> user,
                                     email |-> req[p].email,
                                     password |-> req[p].password,
                                     consentGiven |-> req[p].consentGiven,
                                     accessToken |-> accessToken.val,
                                     refreshToken |-> refreshToken.val]]
                       /\ UNCHANGED lastResp
    /\ UNCHANGED <<now, variant, refreshTokens, audit, fails, issued, loggedOut>>
    /\ UNCHANGED bridgeFrame

\* INSERT INTO refresh_tokens and the 201 answer
PgRegisterIssue(p) ==
    /\ variant = "pg"
    /\ req[p].pc = "register_issue"
    /\ refreshTokens' = Append(refreshTokens,
            [user_id |-> req[p].user.id,
             token_hash |-> bcryptHash(req[p].refreshToken),
             expires_at |-> now + WEEK, is_revoked |-> FALSE])
    /\ AuthRespond(p, [op |-> "register", status |-> 201, user |-> req[p].user.id,
                       accessToken |-> req[p].accessToken,
                       refreshToken |-> req[p].refreshToken])
    /\ issued' = issued \cup {req[p].accessToken, req[p].refreshToken}
    /\ UNCHANGED <<now, variant, users, audit, fails, loggedOut>>
    /\ UNCHANGED bridgeFrame

\* POST /signup on Supabase: validation, the consent check, getUserByEmail
SbSignupStart(p, email, password, consentGiven) ==
    /\ variant = "supabase"
    /\ req[p].pc = "idle"
    /\ IF ~ValidPassword(password)
       THEN AuthRespond(p, [op |-> "register", status |-> 400])
       ELSE IF ~consentGiven
       THEN AuthRespond(p, [op |-> "register", status |-> 400,
                            error |-> "Consent required"])
       ELSE IF getUserByEmail(email) # NULL
       THEN AuthRespond(p, [op |-> "register", status |-> 409])
       ELSE /\ req' = [req EXCEPT ![p] =
                         [pc |-> "register_insert", email |-> email,
                          password |-> password, consentGiven |-> consentGiven]]
            /\ UNCHANGED lastResp
    /\ UNCHANGED <<now, variant, users, refreshTokens, audit, fails, issued, loggedOut>>
    /\ UNCHANGED bridgeFrame

\* createUser and the token signing.  createUser answers null for every
\* insert error: a table without a passwordHash column (`accepted` false)
\* and a unique violation alike end in 500 "Registration failed".
SbSignupInsert(p, accepted) ==
    /\ variant = "supabase"
    /\ req[p].pc = "register_insert"
    /\ LET user == SignupRow(uuidv4, req[p].email, req[p].password)
       IN IF ~accepted \/ EmailTaken(req[p].email)
          THEN /\ AuthRespond(p, [op |-> "register", status |-> 500])
               /\ UNCHANGED users
          ELSE /\ users' = users @@ (user.id :> user)
               /\ req' = [req EXCEPT ![p] =
                            [pc |-> "register_audit", user |-> user,
                             consentGiven |-> req[p].consentGiven,
                             token |-> generateToken(user.id, user.email),
                             refreshToken |-> generateRefreshTokenSupabase(user.id)]]
               /\ UNCHANGED lastResp
    /\ UNCHANGED <<now, variant, refreshTokens, audit, fails, issued, loggedOut>>
    /\ UNCHANGED bridgeFrame

\* insertAuditLog(USER_REGISTERED) and the 201 answer
SbSignupAudit(p) ==
    /\ variant = "supabase"
    /\ req[p].pc = "register_audit"
    /\ audit' = Append(audit, [user_id |-> req[p].user.id,
                               action_type |-> "USER_REGISTERED"])
    /\ AuthRespond(p, [op |-> "register", status |-> 201, user |-> req[p].user.id,
                       accessToken |-> req[p].token,
                       refreshToken |-> req[p].refreshToken])
    /\ issued' = issued \cup {req[p].token, req[p].refreshToken}
    /\ UNCHANGED <<now, variant, users, refreshTokens, fails, loggedOut>>
    /\ UNCHANGED bridgeFrame

----------------------------------------------------------------------------
(* Initial states and inputs of the clinical bridge                        *)

PatientEmail == [pt1 |-> "a@x.io", pt2 |-> "b@x.io"]

\* a users row as the signup handler creates it
NewUser(id, email, password) ==
    [id |-> id, email |-> email, password_hash |-> [bcrypt |-> password],
     failed_login_attempts |-> 0, locked_until |-> NULL, last_login |-> NULL,
     biometric_enabled |-> FALSE, mental_health_index |-> 50]

Configured == [JWT_SECRET |-> "secret", JWT_REFRESH_SECRET |-> "refresh-secret",
               DOCTOR_BRIDGE_KEY |-> "bridge-key",
               JOURNAL_ENCRYPTION_KEY |-> "journal-key"]

EmptyTable == [x \in {} |-> NULL]

NoRecords == [moodLogs |-> <<>>, journalEntries |-> <<>>,
              voiceAnalysis |-> <<>>, medicationLogs |-> <<>>]

SampleRecords ==
    [moodLogs |-> << [mood_score |-> 8, anxiety_level |-> Some(3)],
                     [mood_score |-> 7, anxiety_level |-> NULL],
                     [mood_score |-> 3, anxiety_level |-> Some(6)],
                     [mood_score |-> 2, anxiety_level |-> Some(4)] >>,
     journalEntries |-> << [id |-> 1, title |-> "t1", entry_type |-> "general",
                            sentiment_analysis |-> "positive",
                            encrypted_content |-> "ct1", encryption_iv |-> "iv1"] >>,
     voiceAnalysis |-> << [id |-> 1, flat_affect_score |-> 1,
                           agitated_speech_score |-> 2,
                           overall_vocal_health_score |-> 75,
                           encrypted_audio_path |-> "a1"] >>,
     medicationLogs |-> << [status |-> "taken"], [status |-> "missed"],
                           [status |-> "taken"] >>]

NoMood == [AllTrue EXCEPT !["view_mood_logs"] = FALSE]
PermInputs == {AllTrue, NoMood}

\* bearer tokens a client may present: one issued to each patient and a
\* forged one
PatientBearer(u) == Some([userId |-> u, email |-> PatientEmail[u],
                          exp |-> WEEK, sig |-> Configured.JWT_SECRET])
ForgedBearer == Some([userId |-> "pt1", email |-> PatientEmail["pt1"],
                      exp |-> WEEK, sig |-> "forged"])
BearerInputs == {PatientBearer(u) : u \in Patients} \cup {ForgedBearer}

\* session tokens a client may present to the summary route
TokenInputs == {encryptSessionCode(c, s) : c \in Codes, s \in Salts}

\* request bodies of POST /access: every code with every doctor id, an
\* unknown doctor id, and the two incomplete bodies
AccessInputs == (Codes \X (DoctorIds \cup {"dx"})) \cup {<<0, "d1">>, <<MinCode, "">>}

InitAuthIdle ==
    /\ variant = "supabase"
    /\ users = [u \in Patients |-> NewUser(u, PatientEmail[u], "pw1")]
    /\ refreshTokens = <<>>
    /\ audit = <<>>
    /\ req = [p \in Procs |-> IdleReq]
    /\ fails = [u \in Patients |-> 0]
    /\ issued = {}
    /\ loggedOut = {}

\* the stored rows of a patient with the journal text replaced by `text`
WithJournalContent(rec, text) ==
    [rec EXCEPT !.journalEntries =
        [i \in 1..Len(rec.journalEntries) |->
            [rec.journalEntries[i] EXCEPT !.encrypted_content = text,
                                          !.encryption_iv = <<"iv", text>>]]]

JournalTexts == {"ct1", "ct2"}

InitBridge ==
    /\ now = 0
    /\ env = Configured
    /\ conns = EmptyTable
    /\ doctors = [d \in DoctorIds |-> [id |-> d, is_verified |-> TRUE]]
    /\ records = [pt1 |-> SampleRecords, pt2 |-> NoRecords]
    /\ acc = [p \in Procs |-> IdleAcc]
    /\ lastResp = NoResp
    /\ InitAuthIdle

\* concurrent requests on one shared code at one instant
NextBridge ==
    \/ \E b \in {PatientBearer("pt1"), ForgedBearer}, perms \in PermInputs, h \in TtlInputs :
          conns = EmptyTable /\ CreateSession(b, perms, h)
    \/ \E b \in BearerInputs : ListSessions(b)
    \/ \E b \in BearerInputs, id \in ConnIds : RevokeSession(b, id)
    \/ \E p \in Procs, in \in AccessInputs : AccessStart(p, in[1], in[2])
    \/ \E p \in Procs : AccessBind(p)
    \/ \E p \in Procs : AccessFetch(p)
    \/ \E h \in HeaderNames, t \in TokenInputs, pt \in Patients :
          PatientSummary(h, t, pt)

SpecBridge == InitBridge /\ [][NextBridge]_vars

\* the same requests when the doctors table holds a row that is not verified
\* (doctor login tests is_verified, so the table is expected to hold such rows)
InitDoctors ==
    /\ now = 0
    /\ env = Configured
    /\ conns = EmptyTable
    /\ doctors = [d \in DoctorIds |-> [id |-> d, is_verified |-> d = "d1"]]
    /\ records = [pt1 |-> SampleRecords, pt2 |-> NoRecords]
    /\ acc = [p \in Procs |-> IdleAcc]
    /\ lastResp = NoResp
    /\ InitAuthIdle

SpecDoctors == InitDoctors /\ [][NextBridge]_vars

\* the same requests as time passes, one /access request at a time
NoAccessInFlight == \A q \in Procs : acc[q].pc \in {"idle", "done"}

NextClock ==
    \/ \E h \in 1..MaxTtl : CreateSession(PatientBearer("pt1"), AllTrue, h)
    \/ \E id \in ConnIds : RevokeSession(PatientBearer("pt1"), id)
    \/ \E p \in Procs, code \in Codes :
          NoAccessInFlight /\ AccessStart(p, code, "d1")
    \/ \E p \in Procs : AccessBind(p)
    \/ \E p \in Procs : AccessFetch(p)
    \/ \E t \in TokenInputs, pt \in Patients : PatientSummary("sessionToken", t, pt)
    \/ \E t \in BridgeTimes : Tick(t)

SpecClock == InitBridge /\ [][NextClock]_vars

\* one patient shares under every permission set; the journal text varies
InitView ==
    /\ now = 0
    /\ env = Configured
    /\ conns = EmptyTable
    /\ doctors = [d \in DoctorIds |-> [id |-> d, is_verified |-> TRUE]]
    /\ \E rec \in {NoRecords, SampleRecords}, text \in JournalTexts :
          records = [pt1 |-> WithJournalContent(rec, text), pt2 |-> NoRecords]
    /\ acc = [p \in Procs |-> IdleAcc]
    /\ lastResp = NoResp
    /\ InitAuthIdle

NextView ==
    \/ \E perms \in PermissionSets :
          conns = EmptyTable /\ CreateSession(PatientBearer("pt1"), perms, 1)
    \/ \E p \in Procs, code \in Codes : AccessStart(p, code, "d1")
    \/ \E p \in Procs : AccessBind(p)
    \/ \E p \in Procs : AccessFetch(p)

SpecView == InitView /\ [][NextView]_vars

----------------------------------------------------------------------------
(* The credential issuer on its own: one /auth request at a time           *)

MaxFails == 6
MaxAudit == 6
MaxRows == 2
MaxLocks == 1

AuthTimes == {k * LOCK_MINUTES + j : k \in 1..MaxLocks, j \in {-1, 1}}
EmailInputs == {PatientEmail["pt1"], "A@x.io", "nobody@x.io"}
PasswordInputs == {"pw1", "bad"}
ForgedToken == [userId |-> "pt1", iat |-> 0, exp |-> WEEK, sig |-> "forged"]

NoAuthInFlight == \A q \in Procs : req[q].pc = "idle"
AuthRoom ==
    /\ \A u \in DOMAIN users : users[u].failed_login_attempts < MaxFails
    /\ Len(audit) < MaxAudit
    /\ Len(refreshTokens) < MaxRows

InitAuth ==
    /\ now = 0
    /\ env = Configured
    /\ conns = EmptyTable
    /\ doctors = [d \in DoctorIds |-> [id |-> d, is_verified |-> TRUE]]
    /\ records = [pt1 |-> NoRecords, pt2 |-> NoRecords]
    /\ acc = [p \in Procs |-> IdleAcc]
    /\ lastResp = NoResp
    /\ variant \in {"pg", "supabase"}
    /\ users = [u \in Patients |-> NewUser(u, PatientEmail[u], "pw1")]
    /\ refreshTokens = <<>>
    /\ audit = <<>>
    /\ req = [p \in Procs |-> IdleReq]
    /\ fails = [u \in Patients |-> 0]
    /\ issued = {}
    /\ loggedOut = {}

NextAuth ==
    \/ \E p \in Procs, email \in EmailInputs, password \in PasswordInputs :
          NoAuthInFlight /\ AuthRoom /\ PgLoginStart(p, email, password)
    \/ \E p \in Procs : PgLoginUpdate(p)
    \/ \E p \in Procs : PgLoginIssue(p)
    \/ \E p \in Procs, email \in EmailInputs, password \in PasswordInputs :
          NoAuthInFlight /\ AuthRoom /\ SbLoginStart(p, email, password)
    \/ \E p \in Procs : SbLoginUpdate(p)
    \/ \E p \in Procs : SbLoginAudit(p)
    \/ \E t \in issued \cup {ForgedToken} : NoAuthInFlight /\ PgRefresh(t)
    \/ \E t \in issued \cup {ForgedToken}, resolved \in BOOLEAN :
          NoAuthInFlight /\ SbRefresh(t, resolved)
    \/ \E t \in issued \cup {ForgedToken} : NoAuthInFlight /\ PgLogout(Some(t))
    \/ \E t \in issued \cup {ForgedToken} :
          NoAuthInFlight /\ Len(audit) < MaxAudit /\ SbLogout(Some(t))
    \/ \E t \in AuthTimes : NoAuthInFlight /\ Tick(t)

SpecAuth == InitAuth /\ [][NextAuth]_vars

----------------------------------------------------------------------------
(* Registration and first login: register calls interleave                 *)

RegisterEmails == {PatientEmail["pt1"], "c@x.io", "C@x.io"}
RegisterPasswords == {"pw1", "pw2", "short"}

Registering == {q \in Procs : req[q].pc = "register_insert"}
RegisterRoom ==
    Cardinality(DOMAIN users) + Cardinality(Registering)
        < Cardinality(Patients) + MaxNewUsers
NoLoginInFlight ==
    \A q \in Procs : req[q].pc \notin {"login_update", "login_issue", "login_audit"}

InitRegister ==
    /\ now = 0
    /\ env = Configured
    /\ conns = EmptyTable
    /\ doctors = [d \in DoctorIds |-> [id |-> d, is_verified |-> TRUE]]
    /\ records = [pt1 |-> NoRecords, pt2 |-> NoRecords]
    /\ acc = [p \in Procs |-> IdleAcc]
    /\ lastResp = NoResp
    /\ variant \in {"pg", "supabase"}
    /\ users = [u \in Patients |-> NewUser(u, PatientEmail[u], "pw1")]
    /\ refreshTokens = <<>>
    /\ audit = <<>>
    /\ req = [p \in Procs |-> IdleReq]
    /\ fails = [u \in UserIds |-> 0]
    /\ issued = {}
    /\ loggedOut = {}

NextRegister ==
    \/ \E p \in Procs, email \in RegisterEmails, password \in RegisterPasswords,
          consentGiven \in BOOLEAN :
          NoLoginInFlight /\ RegisterRoom /\ AuthRoom
              /\ PgRegisterStart(p, email, password, consentGiven)
    \/ \E p \in Procs : PgRegisterInsert(p)
    \/ \E p \in Procs : PgRegisterIssue(p)
    \/ \E p \in Procs, email \in RegisterEmails, password \in RegisterPasswords,
          consentGiven \in BOOLEAN :
          NoLoginInFlight /\ RegisterRoom /\ AuthRoom
              /\ SbSignupStart(p, email, password, consentGiven)
    \/ \E p \in Procs, accepted \in BOOLEAN : SbSignupInsert(p, accepted)
    \/ \E p \in Procs : SbSignupAudit(p)
    \/ \E p \in Procs, email \in RegisterEmails, password \in {"pw1", "pw2"} :
          NoAuthInFlight /\ AuthRoom /\ PgLoginStart(p, email, password)
    \/ \E p \in Procs : PgLoginUpdate(p)
    \/ \E p \in Procs : PgLoginIssue(p)
    \/ \E p \in Procs, email \in RegisterEmails, password \in {"pw1", "pw2"} :
          NoAuthInFlight /\ AuthRoom /\ SbLoginStart(p, email, password)
    \/ \E p \in Procs : SbLoginUpdate(p)
    \/ \E p \in Procs : SbLoginAudit(p)

SpecRegister == InitRegister /\ [][NextRegister]_vars

----------------------------------------------------------------------------
(* Register and login when the signing secrets may be missing from the     *)
(* environment                                                             *)

Environments ==
    {[Configured EXCEPT !.JWT_SECRET = j, !.JWT_REFRESH_SECRET = r] :
        j \in {Configured.JWT_SECRET, "unset"},
        r \in {Configured.JWT_REFRESH_SECRET, "unset"}}

InitSecrets ==
    /\ now = 0
    /\ env \in Environments
    /\ conns = EmptyTable
    /\ doctors = [d \in DoctorIds |-> [id |-> d, is_verified |-> TRUE]]
    /\ records = [pt1 |-> NoRecords, pt2 |-> NoRecords]
    /\ acc = [p \in Procs |-> IdleAcc]
    /\ lastResp = NoResp
    /\ variant \in {"pg", "supabase"}
    /\ users = [u \in Patients |-> NewUser(u, PatientEmail[u], "pw1")]
    /\ refreshTokens = <<>>
    /\ audit = <<>>
    /\ req = [p \in Procs |-> IdleReq]
    /\ fails = [u \in UserIds |-> 0]
    /\ issued = {}
    /\ loggedOut = {}

\* a login that signs no token leaves the count of failures as it was
FailsRoom == \A u \in UserIds : fails[u] < MaxFails

NextSecrets ==
    \/ \E p \in Procs, email \in {"c@x.io", "C@x.io"} :
          NoAuthInFlight /\ RegisterRoom /\ AuthRoom
              /\ PgRegisterStart(p, email, "pw1", TRUE)
    \/ \E p \in Procs : PgRegisterInsert(p)
    \/ \E p \in Procs : PgRegisterIssue(p)
    \/ \E p \in Procs, email \in {"c@x.io", "C@x.io"} :
          NoAuthInFlight /\ RegisterRoom /\ AuthRoom
              /\ SbSignupStart(p, email, "pw1", TRUE)
    \/ \E p \in Procs, accepted \in BOOLEAN : SbSignupInsert(p, accepted)
    \/ \E p \in Procs : SbSignupAudit(p)
    \/ \E p \in Procs, email \in RegisterEmails, password \in {"pw1", "pw2"} :
          NoAuthInFlight /\ AuthRoom /\ FailsRoom /\ PgLoginStart(p, email, password)
    \/ \E p \in Procs : PgLoginUpdate(p)
    \/ \E p \in Procs : PgLoginIssue(p)
    \/ \E p \in Procs, email \in RegisterEmails, password \in {"pw1", "pw2"} :
          NoAuthInFlight /\ AuthRoom /\ FailsRoom /\ SbLoginStart(p, email, password)
    \/ \E p \in Procs : SbLoginUpdate(p)
    \/ \E p \in Procs : SbLoginAudit(p)

SpecSecrets == InitSecrets /\ [][NextSecrets]_vars

----------------------------------------------------------------------------
(* Journal content encryption (routes/journal.ts).  CryptoJS.AES with a    *)
(* string passphrase derives key and iv from the passphrase and a random   *)
(* salt carried in the ciphertext; neither function takes an owner.        *)

\* process.env.JOURNAL_ENCRYPTION_KEY || 'default-encryption-key-change-in-production'
ENCRYPTION_KEY ==
    IF env.JOURNAL_ENCRYPTION_KEY = "unset" THEN "default-encryption-key"
    ELSE env.JOURNAL_ENCRYPTION_KEY

\* encryptContent(content): { encrypted, iv }
encryptContent(content, salt, iv) ==
    [encrypted |-> [salted |-> salt, key |-> ENCRYPTION_KEY, bytes |-> content],
     iv |-> iv]

\* decryptContent(encrypted, iv): the plaintext, or '' from the catch
decryptContent(encrypted, iv) ==
    IF encrypted.key = ENCRYPTION_KEY THEN encrypted.bytes ELSE ""

Plaintexts == {"", "p1", "p2"}
ContentSalts == {"s1", "s2"}
ContentIvs == {"iv1", "iv2"}

\* encryptContent applied to the content an owner submits
EncryptFor(ownerId, content, salt, iv) ==
    /\ lastResp' = [op |-> "encrypt", owner |-> ownerId, plaintext |-> content,
                    result |-> encryptContent(content, salt, iv)]
    /\ UNCHANGED <<now, env, conns, doctors, records, acc>>
    /\ UNCHANGED authVars

\* decryptContent applied, on behalf of ownerId, to the last ciphertext made
DecryptFor(ownerId) ==
    /\ lastResp.op = "encrypt"
    /\ lastResp' = [op |-> "decrypt", owner |-> ownerId,
                    encryptedFor |-> lastResp.owner,
                    plaintext |-> lastResp.plaintext,
                    ciphertext |-> lastResp.result,
                    result |-> decryptContent(lastResp.result.encrypted,
                                              lastResp.result.iv)]
    /\ UNCHANGED <<now, env, conns, doctors, records, acc>>
    /\ UNCHANGED authVars

InitJournal ==
    /\ now = 0
    /\ env \in {Configured, [Configured EXCEPT !.JOURNAL_ENCRYPTION_KEY = "unset"]}
    /\ conns = EmptyTable
    /\ doctors = [d \in DoctorIds |-> [id |-> d, is_verified |-> TRUE]]
    /\ records = [pt1 |-> NoRecords, pt2 |-> NoRecords]
    /\ acc = [p \in Procs |-> IdleAcc]
    /\ lastResp = NoResp
    /\ InitAuthIdle

NextJournal ==
    \/ \E u \in Patients, content \in Plaintexts, salt \in ContentSalts,
          iv \in ContentIvs : EncryptFor(u, content, salt, iv)
    \/ \E u \in Patients : DecryptFor(u)

SpecJournal == InitJournal /\ [][NextJournal]_vars

----------------------------------------------------------------------------
(* Logins on one identity that overlap                                     *)

NextRace ==
    \/ \E p \in Procs, password \in PasswordInputs :
          AuthRoom /\ PgLoginStart(p, PatientEmail["pt1"], password)
    \/ \E p \in Procs : PgLoginUpdate(p)
    \/ \E p \in Procs : PgLoginIssue(p)
    \/ \E p \in Procs, password \in PasswordInputs :
          AuthRoom /\ SbLoginStart(p, PatientEmail["pt1"], password)
    \/ \E p \in Procs : SbLoginUpdate(p)
    \/ \E p \in Procs : SbLoginAudit(p)

SpecRace == InitAuth /\ [][NextRace]_vars

----------------------------------------------------------------------------
(* Claims about the clinical bridge                                        *)

MatchedBy(r) == IF r.pc \in {"bind", "fetch"} THEN r.connection.id
                ELSE IF r.pc = "done" THEN r.matched ELSE 0

CodeOf(c) == decryptSessionCode(conns[c].access_token)

\* C1 (as stated): of two claim calls by different doctors on one
\* never-claimed, fully permitted code, exactly one succeeds, the other is
\* turned away as already claimed or invalid, and the connection carries the
\* doctor id of the one that succeeded.
C1_ExactlyOneClaimWins ==
    \A p, q \in Procs :
        ( /\ p # q
          /\ acc[p].pc = "done" /\ acc[q].pc = "done"
          /\ acc[p].matched # 0 /\ acc[p].matched = acc[q].matched
          /\ acc[p].doctorId # acc[q].doctorId
          /\ {acc[p].doctorId, acc[q].doctorId} \subseteq DOMAIN doctors
          /\ conns[acc[p].matched].permissions = AllTrue )
        => \E w \in {p, q} : \E l \in {p, q} \ {w} :
              /\ acc[w].status = 200
              /\ acc[l].status \in {401, 404, 409}
              /\ conns[acc[w].matched].doctor_id = acc[w].doctorId

\* C2 (as stated): once a connection's doctor_id is bound, no step changes it.
C2_FirstClaimWins ==
    [][\A c \in DOMAIN conns :
          conns[c].doctor_id # "" => conns'[c].doctor_id = conns[c].doctor_id]_vars

C7_ViewMatchesGates ==
    \A p \in Procs :
        (acc[p].pc = "done" /\ acc[p].matched # 0 /\ acc[p].doctorId \in DOMAIN doctors) =>
            /\ acc[p].status = 200
            /\ \A k \in Categories :
                  k \in DOMAIN acc[p].body.data <=>
                     conns[acc[p].matched].permissions[CategoryGate[k]]

\* C8: a disclosed view carries no journal ciphertext or IV, and it is the
\* view the same call would have produced had the journal text been any other.
C8_NoJournalContent ==
    \A p \in Procs :
        (acc[p].pc = "done" /\ acc[p].status = 200) =>
            LET c == conns[acc[p].matched]
                data == acc[p].body.data
            IN /\ "journalEntries" \in DOMAIN data =>
                     \A i \in 1..Len(data.journalEntries) :
                        DOMAIN data.journalEntries[i] \cap
                           {"encrypted_content", "encryption_iv", "content"} = {}
               /\ \A text \in JournalTexts :
                     acc[p].body.data =
                        FetchPatientData(c.permissions,
                            WithJournalContent(records[c.patient_id], text))

\* a view with journal metadata in it was disclosed
C8_Witness ==
    \E p \in Procs :
        /\ acc[p].pc = "done" /\ acc[p].status = 200
        /\ "journalEntries" \in DOMAIN acc[p].body.data
        /\ Len(acc[p].body.data.journalEntries) > 0

\* C10 (as stated): a revoke by a patient who does not own the connection, or
\* of an id that does not exist, answers 404 and changes no connection.
C10_RevokeNotOwnedIsNotFound ==
    [][\A u \in Patients, id \in ConnIds :
          ( /\ RevokeSession(PatientBearer(u), id)
            /\ (id \notin DOMAIN conns \/ conns[id].patient_id # u) )
          => (lastResp'.status = 404 /\ conns' = conns)]_vars

----------------------------------------------------------------------------
(* Claims about the credential issuer                                      *)

Threshold == IF variant = "pg" THEN PgThreshold ELSE SbThreshold

LoginStart(p, email, password) ==
    PgLoginStart(p, email, password) \/ SbLoginStart(p, email, password)

LockInForce(u) == users[u].locked_until # NULL /\ now < users[u].locked_until[1]

\* C4: counting consecutive wrong-password answers from zero, the answer
\* that brings the count to k leaves lockUntil at now + cool-down if k is at
\* least the threshold N and empty otherwise; a login with the right
\* password after fewer than N failures is accepted and answered 200 with
\* tokens, and one made right after the N-th failure is answered 423.
C4_LockoutBoundary ==
    [][\A u \in Patients :
          /\ fails'[u] = fails[u] + 1 =>
                users'[u].locked_until =
                    IF fails'[u] >= Threshold THEN Some(now + LOCK_MINUTES) ELSE NULL
          /\ (NoAuthInFlight /\ fails[u] < Threshold) => users[u].locked_until = NULL
          /\ \A p \in Procs :
                (req[p].pc = "idle" /\ LoginStart(p, PatientEmail[u], "pw1")) =>
                   /\ fails[u] < Threshold =>
                         req'[p].pc = "login_update" /\ req'[p].isValidPassword
                   /\ (fails[u] >= Threshold /\ LockInForce(u)) =>
                         lastResp' = [op |-> "login", status |-> 423, user |-> u]
          /\ \A p \in Procs :
                ( /\ req[p].pc \in {"login_update", "login_issue", "login_audit"}
                  /\ req[p].user.id = u
                  /\ (req[p].pc = "login_issue" \/ req[p].isValidPassword)
                  /\ req'[p].pc = "idle" )
                => /\ lastResp'.status = 200 /\ lastResp'.user = u
                   /\ {"accessToken", "refreshToken"} \subseteq DOMAIN lastResp'
      ]_vars

\* the N-th consecutive failure has just locked the account and a login made
\* since was answered 423
C4_Witness ==
    \E u \in Patients :
        /\ fails[u] = Threshold
        /\ users[u].failed_login_attempts = Threshold
        /\ users[u].locked_until = Some(now + LOCK_MINUTES)
        /\ lastResp = [op |-> "login", status |-> 423, user |-> u]

\* C5: a login for an identity whose stored lockUntil is in the future is
\* answered 423 whatever the password, hands out no token and writes nothing.
C5_LockedLoginRejected ==
    [][\A p \in Procs, email \in EmailInputs, password \in PasswordInputs :
          \A u \in Patients :
             ( /\ LockInForce(u)
               /\ users[u].email = (IF variant = "pg" THEN toLowerCase(email) ELSE email)
               /\ LoginStart(p, email, password) )
             => /\ lastResp' = [op |-> "login", status |-> 423, user |-> u]
                /\ req'[p].pc = "idle"
                /\ issued' = issued /\ users' = users
                /\ refreshTokens' = refreshTokens
      ]_vars

\* a login was answered 423 one minute before the end of the lock
C5_Witness ==
    \E u \in Patients :
        /\ lastResp = [op |-> "login", status |-> 423, user |-> u]
        /\ users[u].locked_until = Some(now + 1)
        /\ NoAuthInFlight

\* C9 (as stated): a refresh presenting a refresh token that was issued to an
\* identity before a completed logout of that identity is answered 401 and
\* carries no access token.
C9_RefreshAfterLogoutFails ==
    [][\A t \in loggedOut :
          ( /\ "email" \notin DOMAIN t
            /\ lastResp'.op = "refresh"
            /\ (PgRefresh(t) \/ \E resolved \in BOOLEAN : SbRefresh(t, resolved)) )
          => (lastResp'.status = 401 /\ "accessToken" \notin DOMAIN lastResp')]_vars

----------------------------------------------------------------------------
(* Further claims about the clinical bridge                                *)

\* C11 (as stated): a revoke by the owner of a connection that is already
\* revoked answers 200 and leaves the connection exactly as the first revoke
\* left it, revoked_at and revocation_reason included.
C11_RevokeIdempotent ==
    [][\A id \in DOMAIN conns :
          ( /\ ~conns[id].is_active
            /\ RevokeSession(PatientBearer(conns[id].patient_id), id) )
          => (lastResp'.status = 200 /\ conns'[id] = conns[id])]_vars

----------------------------------------------------------------------------
(* Claims about registration                                               *)

\* the email under which the register handler looks up and stores the user
StoredEmail(email) == IF variant = "pg" THEN toLowerCase(email) ELSE email

\* C12 (as stated): no two identities ever share an email, however register
\* calls interleave, and a register call that finds its email already stored
\* when it inserts answers 409 and adds no identity and no refresh-token row.
C12_EmailUniqueness ==
    [][ /\ \A u, v \in DOMAIN users' :
              users'[u].email = users'[v].email => u = v
        /\ \A p \in Procs :
              ( /\ req[p].pc = "register_insert"
                /\ EmailTaken(StoredEmail(req[p].email))
                /\ req'[p] # req[p] )
              => /\ lastResp'.status = 409
                 /\ users' = users
                 /\ refreshTokens' = refreshTokens ]_vars

\* C13 (as stated): a register call with consentGiven = false ends at once
\* with a failure answer, and no step of such a call creates an identity,
\* stores a refresh token, hands out a token or appends an audit entry.
C13_ConsentRequired ==
    [][\A p \in Procs :
          /\ \A email \in RegisterEmails, password \in RegisterPasswords :
                ( \/ PgRegisterStart(p, email, password, FALSE)
                  \/ SbSignupStart(p, email, password, FALSE) )
                => (req'[p].pc = "idle" /\ lastResp'.status \in {400, 409})
          /\ ( /\ req[p].pc \in {"register_insert", "register_issue", "register_audit"}
               /\ ~req[p].consentGiven
               /\ req'[p] # req[p] )
             => UNCHANGED <<users, refreshTokens, issued, audit>> ]_vars

\* what the authenticate middleware makes of an access token: the identity
\* of its payload, or NULL when the token is refused
VerifiedIdentity(token) ==
    IF authenticate(Some(token)).ok
    THEN Some([id |-> token.userId, email |-> token.email])
    ELSE NULL

\* C14 (pg issuer): a register answered 201 leaves exactly one row for its
\* email, holding a hash the login comparison accepts for its password, and
\* returns a token that verifies to that row; and a login presenting the
\* email and password of a registered, unlocked row goes through to a 200
\* answer whose access token verifies to the id and email of that row.
C14_RegisterThenLogin ==
    [][\A p \in Procs :
          /\ (variant = "pg" /\ req[p].pc = "register_issue" /\ req'[p] # req[p])
             => /\ lastResp'.status = 201
                /\ {u \in DOMAIN users' :
                       users'[u].email = toLowerCase(req[p].email)}
                      = {lastResp'.user}
                /\ bcryptCompare(req[p].password,
                                 users'[lastResp'.user].password_hash)
                /\ ~IsLocked(users'[lastResp'.user])
                /\ VerifiedIdentity(lastResp'.accessToken)
                      = Some([id |-> lastResp'.user,
                              email |-> users'[lastResp'.user].email])
          /\ \A u \in NewIds \cap DOMAIN users, email \in RegisterEmails,
                password \in RegisterPasswords :
                ( /\ variant = "pg"
                  /\ users[u].email = toLowerCase(email)
                  /\ ~IsLocked(users[u])
                  /\ bcryptCompare(password, users[u].password_hash)
                  /\ PgLoginStart(p, email, password) )
                => /\ req'[p].pc = "login_update"
                   /\ req'[p].user.id = u
                   /\ req'[p].isValidPassword
          /\ ( /\ variant = "pg" /\ req[p].pc = "login_update"
               /\ req[p].isValidPassword /\ req'[p] # req[p] )
             => /\ req'[p].pc = "login_issue"
                /\ req'[p].user.id = req[p].user.id
          /\ (variant = "pg" /\ req[p].pc = "login_issue" /\ req'[p] # req[p])
             => /\ lastResp'.op = "login" /\ lastResp'.status = 200
                /\ VerifiedIdentity(lastResp'.accessToken)
                      = Some([id |-> req[p].user.id,
                              email |-> users[req[p].user.id].email]) ]_vars

\* a login answered 200 for an identity that a register call created, with
\* an access token that verifies to it
C14_Witness ==
    /\ variant = "pg"
    /\ lastResp.op = "login" /\ lastResp.status = 200
    /\ lastResp.user \in NewIds
    /\ VerifiedIdentity(lastResp.accessToken)
          = Some([id |-> lastResp.user, email |-> users[lastResp.user].email])

\* the doctorId resolves to a verified clinician
VerifiedClinician(doctorId) ==
    doctorId \in DOMAIN doctors /\ doctors[doctorId].is_verified

\* C15 (as stated): a claim whose doctorId does not resolve to a verified
\* clinician ends without success at its first step, its answer carries no
\* data, and the connections are left as they were.
C15_UnverifiedDoctorRefused ==
    [][\A p \in Procs :
          ( /\ acc[p].pc = "idle"
            /\ acc'[p].pc # "idle"
            /\ ~VerifiedClinician(acc'[p].doctorId) )
          => /\ acc'[p].pc = "done"
             /\ acc'[p].status \in {400, 401, 404}
             /\ acc'[p].body = [status |-> acc'[p].status]
             /\ conns' = conns ]_vars

\* C16 (as stated): while a signing secret is missing from the environment
\* no register or login is answered with success, no token is handed out,
\* and no token is ever signed with the compiled-in placeholder.
C16_NoDefaultSecret ==
    /\ \A t \in issued : t.sig # "placeholder"
    /\ (env.JWT_SECRET = "unset")
          => /\ issued = {}
             /\ lastResp.op \in {"register", "login"}
                   => lastResp.status \notin {200, 201}

\* C17 (as stated): decrypting a ciphertext on behalf of the owner it was
\* encrypted for gives back the plaintext, the empty string included, and
\* decrypting it on behalf of any other owner gives the empty string.
C17_RoundTripPerOwner ==
    lastResp.op = "decrypt"
       => IF lastResp.owner = lastResp.encryptedFor
          THEN lastResp.result = lastResp.plaintext
          ELSE lastResp.result = ""

\* the category is permitted on connection c and its patient has no records
PermittedAndEmpty(c, k) ==
    /\ conns[c].permissions[CategoryGate[k]]
    /\ records[conns[c].patient_id][k] = <<>>

\* C18 (as stated): a claim that reaches the view assembly while a permitted
\* category has no records answers 200 and reports the sentinel for that
\* category: trend 'insufficient_data' with null averages, voice status
\* 'insufficient_data', adherence rate 0.
C18_EmptyCategorySentinels ==
    \A p \in Procs :
        (acc[p].pc = "done" /\ acc[p].matched # 0 /\ acc[p].doctorId \in DOMAIN doctors) =>
            LET c == acc[p].matched IN
            /\ (\E k \in {"moodLogs", "voiceAnalysis", "medicationLogs"} :
                   PermittedAndEmpty(c, k))
                  => acc[p].status = 200
            /\ (acc[p].status = 200 /\ PermittedAndEmpty(c, "moodLogs"))
                  => acc[p].body.patientData.moodTrends =
                        [trend |-> "insufficient_data", averageMood |-> NULL,
                         averageAnxiety |-> NULL]
            /\ (acc[p].status = 200 /\ PermittedAndEmpty(c, "voiceAnalysis"))
                  => /\ acc[p].body.patientData.voiceInsights.status = "insufficient_data"
                     /\ acc[p].body.patientData.voiceInsights.averageVocalHealth = NULL
            /\ (acc[p].status = 200 /\ PermittedAndEmpty(c, "medicationLogs"))
                  => acc[p].body.patientData.adherenceRate = 0

----------------------------------------------------------------------------
(* Further claims about the credential issuer                              *)

C20_AuditAppendOnly ==
    [][ /\ Len(audit') >= Len(audit)
        /\ SubSeq(audit', 1, Len(audit)) = audit
        /\ ( /\ lastResp' # lastResp
             /\ lastResp'.op \in {"register", "login", "logout", "session", "revoke"}
             /\ lastResp'.status \in {200, 201}
             /\ lastResp'.op = "logout" => "user" \in DOMAIN lastResp' )
           => Len(audit') = Len(audit) + 1
        /\ \A p \in Procs :
              (acc[p].pc = "fetch" /\ acc'[p].pc = "done" /\ acc'[p].status = 200)
              => Len(audit') = Len(audit) + 1 ]_vars

----------------------------------------------------------------------------
(* Claims about interleaved requests on one connection                     *)

\* C21 (as stated): a claim answers with patient data only if the connection
\* it serves is active and unexpired at the step that assembles and returns
\* the data.
C21_NoStaleDisclosure ==
    [][\A p \in Procs :
          ( /\ acc[p].pc = "fetch"
            /\ acc'[p].pc = "done"
            /\ acc'[p].status = 200 )
          => Usable(conns[acc[p].connection.id], now) ]_vars

\* C22 (as stated): the write of a failed login raises the stored
\* failedAttempts by exactly one, whatever other logins are under way, and
\* leaves the identity locked exactly if the resulting counter has reached
\* the threshold.
C22_NoLostFailure ==
    [][\A p \in Procs :
          ( /\ req[p].pc = "login_update"
            /\ ~req[p].isValidPassword
            /\ req'[p] # req[p] )
          => LET u == req[p].user.id
             IN /\ users'[u].failed_login_attempts
                      = users[u].failed_login_attempts + 1
                /\ users'[u].locked_until =
                      IF users'[u].failed_login_attempts >= Threshold
                      THEN Some(now + LOCK_MINUTES) ELSE NULL ]_vars

\* C23 (as stated): no step lowers a connection's access_count, and the step
\* by which a claim completes with 200 raises the stored access_count of its
\* connection by exactly one.
C23_AccessCountMonotonic ==
    [][ /\ \A c \in DOMAIN conns :
              conns'[c].access_count >= conns[c].access_count
        /\ \A p \in Procs :
              ( /\ acc[p].pc = "fetch"
                /\ acc'[p].pc = "done"
                /\ acc'[p].status = 200 )
              => LET c == acc[p].connection.id
                 IN conns'[c].access_count = conns[c].access_count + 1 ]_vars

\* C24 (as stated): in every reachable state a connection is either not
\* claimed at all (no doctor_id, access_count 0, no last_accessed_at) or
\* claimed in full (doctor_id bound, access_count above 0, last_accessed_at
\* set).
C24_ClaimIsOneWrite ==
    \A c \in DOMAIN conns :
        \/ /\ conns[c].doctor_id = ""
           /\ conns[c].access_count = 0
           /\ conns[c].last_accessed_at = NULL
        \/ /\ conns[c].doctor_id # ""
           /\ conns[c].access_count > 0
           /\ conns[c].last_accessed_at # NULL

----------------------------------------------------------------------------
(* Claims about what the operations leave alone                            *)

\* C25: a connection whose is_active is false keeps it false through every
\* step: session creation, claim, revoke, listing and summary alike.
C25_RevokedIsTerminal ==
    [][\A c \in DOMAIN conns :
          ~conns[c].is_active
             => (c \in DOMAIN conns' /\ ~conns'[c].is_active)]_vars

\* a revoked connection on which a claim went through to its answer after
\* the revoke, while another claim presenting its code was turned away
C25_Witness ==
    \E c \in DOMAIN conns : \E p, q \in Procs :
        /\ ~conns[c].is_active
        /\ acc[p].pc = "done" /\ acc[p].matched = c /\ acc[p].status = 200
        /\ acc[q].pc = "done" /\ acc[q].matched = 0
        /\ acc[q].sessionCode = CodeOf(c) /\ acc[q].status = 404
        /\ lastResp.op = "revoke"

\* C26: once a connection exists, no step changes its patient_id, its
\* token_expires_at, its stored encrypted code or its permissions.
C26_CreationFieldsImmutable ==
    [][\A c \in DOMAIN conns :
          /\ c \in DOMAIN conns'
          /\ conns'[c].patient_id = conns[c].patient_id
          /\ conns'[c].token_expires_at = conns[c].token_expires_at
          /\ conns'[c].access_token = conns[c].access_token
          /\ conns'[c].permissions = conns[c].permissions ]_vars

\* a connection that was claimed and then revoked, and listed since
C26_Witness ==
    \E c \in DOMAIN conns :
        /\ conns[c].doctor_id # ""
        /\ conns[c].access_count > 0
        /\ conns[c].revoked_at # NULL
        /\ lastResp.op = "sessions" /\ lastResp.status = 200

\* C27: the summary route answers with patient data only for a token that is
\* the stored token of a connection active and unexpired at that moment whose
\* patient is the requested one; every other request is answered 401 or 403
\* without data.  Stated for the answer the route gave and for the answer its
\* lookup gives to every token and patient in the current state.
C27_SummaryOnlyForLiveToken ==
    /\ lastResp.op = "summary" => lastResp.status \in {200, 401, 403}
    /\ (lastResp.op = "summary" /\ lastResp.status # 200)
          => DOMAIN lastResp = {"op", "status"}
    /\ \A t \in TokenInputs, pt \in Patients :
          LET r == SummaryResponse(Defined(t), pt)
              live == {c \in DOMAIN conns :
                         /\ conns[c].access_token = t
                         /\ conns[c].is_active
                         /\ now < conns[c].token_expires_at
                         /\ conns[c].patient_id = pt}
          IN /\ r.status \in {200, 401, 403}
             /\ r.status = 200 => (live # {} /\ r.connection \in live)
             /\ r.status # 200 => DOMAIN r = {"op", "status"}

\* a summary request was turned away with 401 in a state that holds a
\* claimed connection and a connection that is revoked or expired
C27_Witness ==
    /\ lastResp = [op |-> "summary", status |-> 401]
    /\ \E c \in DOMAIN conns : ~Usable(conns[c], now)
    /\ \E c \in DOMAIN conns : conns[c].doctor_id # ""

----------------------------------------------------------------------------
(* Claims about the lock after its end                                     *)

\* the step by which request p writes the outcome of its password comparison
WritesFailure(p) ==
    req[p].pc = "login_update" /\ ~req[p].isValidPassword /\ req'[p] # req[p]
WritesSuccess(p) ==
    req[p].pc = "login_update" /\ req[p].isValidPassword /\ req'[p] # req[p]

\* C28: the stored failedAttempts goes down only by the write of a login with
\* the right password, never by time passing; so a failed login on an account
\* whose lock has ended, with no successful login since, leaves the account
\* locked again for the full cool-down.
C28_CounterSurvivesLockExpiry ==
    [][ /\ \A u \in Patients :
              users'[u].failed_login_attempts < users[u].failed_login_attempts
                 => /\ users'[u].failed_login_attempts = 0
                    /\ \E p \in Procs : WritesSuccess(p) /\ req[p].user.id = u
        /\ \A p \in Procs :
              ( /\ WritesFailure(p)
                /\ users[req[p].user.id].locked_until # NULL
                /\ users[req[p].user.id].locked_until[1] <= now )
              => LET u == req[p].user.id
                 IN /\ users'[u].failed_login_attempts
                          = users[u].failed_login_attempts + 1
                    /\ users'[u].locked_until = Some(now + LOCK_MINUTES) ]_vars

\* one failed login after the end of a lock has locked the account again
C28_Witness ==
    \E u \in Patients :
        /\ fails[u] = Threshold + 1
        /\ users[u].failed_login_attempts = Threshold + 1
        /\ now > LOCK_MINUTES
        /\ users[u].locked_until = Some(now + LOCK_MINUTES)
        /\ lastResp = [op |-> "login", status |-> 401, user |-> u]

\* C29: a login with the right password for an account whose lockUntil has
\* passed is let through, its write sets failedAttempts to 0 and clears
\* lockUntil, and it is answered 200; and while a lock is in force no step
\* changes failedAttempts or lockUntil of the account.
C29_LockEnds ==
    [][\A u \in Patients :
          /\ \A p \in Procs :
                ( /\ req[p].pc = "idle"
                  /\ users[u].locked_until # NULL
                  /\ users[u].locked_until[1] <= now
                  /\ LoginStart(p, PatientEmail[u], "pw1") )
                => /\ req'[p].pc = "login_update"
                   /\ req'[p].user.id = u
                   /\ req'[p].isValidPassword
          /\ \A p \in Procs :
                (WritesSuccess(p) /\ req[p].user.id = u)
                => /\ users'[u].failed_login_attempts = 0
                   /\ users'[u].locked_until = NULL
                   /\ req'[p].pc \in {"login_issue", "login_audit"}
          /\ \A p \in Procs :
                ( /\ req[p].pc \in {"login_issue", "login_audit"}
                  /\ req[p].user.id = u
                  /\ (req[p].pc = "login_issue" \/ req[p].isValidPassword)
                  /\ req'[p] # req[p] )
                => (lastResp'.status = 200 /\ lastResp'.user = u)
          /\ (LockInForce(u) /\ NoAuthInFlight)
                => /\ users'[u].failed_login_attempts = users[u].failed_login_attempts
                   /\ users'[u].locked_until = users[u].locked_until ]_vars

\* a login that read the account after the end of its lock has been let
\* through and has reset the counter and cleared the lock
C29_Witness ==
    \E p \in Procs :
        /\ req[p].pc \in {"login_issue", "login_audit"}
        /\ req[p].user.locked_until # NULL
        /\ req[p].user.locked_until[1] < now
        /\ req[p].user.failed_login_attempts >= Threshold
        /\ users[req[p].user.id].failed_login_attempts = 0
        /\ users[req[p].user.id].locked_until = NULL
====
